---- MODULE Spec2Model ----
(***************************************************************************)
(* A model of MongoDriver (src/src/drivers/MongoDriver.ts): the adapter's  *)
(* connection handles, the MongoClient session it awaits, the collection   *)
(* it writes to, and the value each operation returns.                     *)
(*                                                                         *)
(* Texts are sequences of one-character strings, so that the conversions   *)
(* (ObjectId <-> hex text, number -> decimal text, Date -> ISO-8601 text)  *)
(* are computed rather than assumed.  A value is a record                  *)
(*   [t |-> "str" | "num" | "oid", s |-> text, n |-> number]               *)
(* whose unused component is empty / 0.  A document, a query and a patch   *)
(* are functions from a set of field names to values.                      *)
(***************************************************************************)
EXTENDS Integers, Sequences, FiniteSets

VARIABLES
    session,          \* the MongoClient's session: "new", "open" or "closed"
    db,               \* this.db: "null" or "db"
    collection,       \* this.collection: "null" or "coll"
    connectAwait,     \* connect() calls suspended at `await this.client.connect()`
    connectDone,      \* connect() calls whose await has resolved, continuation pending
    disconnectAwait,  \* disconnect() calls suspended at `await this.client.close()`
    disconnectDone,   \* disconnect() calls whose await has resolved, continuation pending
    clock,            \* the wall clock, in milliseconds since the epoch
    store,            \* the collection's documents, in natural (insertion) order
    indexes,          \* the names of the collection's indexes
    last,             \* the latest data operation: its native request and what it returned
    hist,             \* history, parallel to store: the _createdAt set() stamped, the _id
                      \* text set() returned, and whether update() has modified the record
    overlapped        \* history: a connect()/disconnect() was called while another was in flight

vars == <<session, db, collection, connectAwait, connectDone, disconnectAwait,
          disconnectDone, clock, store, indexes, last, hist, overlapped>>

----------------------------------------------------------------------------
(* Bounds of the exploration. *)

MaxClock == 1
MaxDocs == 2
MaxInFlight == 1

----------------------------------------------------------------------------
(* Texts and values. *)

\* The characters the model's texts use, in ASCII order.
Alphabet ==
    <<"-", ".", "0", "1", "2", "3", "4", "5", "6", "7", "8", "9", ":",
      "T", "Z", "a", "b", "c", "d", "e", "f">>

Ord(c) == CHOOSE i \in 1..Len(Alphabet) : Alphabet[i] = c

Digits == <<"0", "1", "2", "3", "4", "5", "6", "7", "8", "9">>

HexChars == {"0", "1", "2", "3", "4", "5", "6", "7", "8", "9",
             "a", "b", "c", "d", "e", "f"}

\* JavaScript's string comparison a < b: lexicographic by character code.
RECURSIVE StrLess(_, _)
StrLess(a, b) ==
    IF b = <<>> THEN FALSE
    ELSE IF a = <<>> THEN TRUE
    ELSE IF Head(a) # Head(b) THEN Ord(Head(a)) < Ord(Head(b))
    ELSE StrLess(Tail(a), Tail(b))

StrLeq(a, b) == a = b \/ StrLess(a, b)

Str(s) == [t |-> "str", s |-> s, n |-> 0]
Num(k) == [t |-> "num", s |-> <<>>, n |-> k]
Oid(h) == [t |-> "oid", s |-> h, n |-> 0]

\* Number.prototype.toString() of a non-negative integer.
RECURSIVE NumToString(_)
NumToString(k) ==
    IF k < 10 THEN <<Digits[k + 1]>>
    ELSE Append(NumToString(k \div 10), Digits[(k % 10) + 1])

\* The digits of k, left-padded with zeros to width w.
RECURSIVE Pad(_, _)
Pad(k, w) == IF w = 0 THEN <<>> ELSE Append(Pad(k \div 10, w - 1), Digits[(k % 10) + 1])

\* new Date().toISOString() when the clock reads ms (below one second).
ToISOString(ms) ==
    <<"1", "9", "7", "0", "-", "0", "1", "-", "0", "1", "T",
      "0", "0", ":", "0", "0", ":", "0", "0", ".">> \o Pad(ms, 3) \o <<"Z">>

\* The length of an ObjectId's hex text.
ObjectIdHexLen == 24

\* ObjectId.isValid(value) for a string value.
ObjectIdIsValid(s) ==
    /\ Len(s) = ObjectIdHexLen
    /\ \A i \in 1..Len(s) : s[i] \in HexChars

\* The hex text of the i-th ObjectId the driver generates.
GenHex(i) == [k \in 1..ObjectIdHexLen |-> IF k = ObjectIdHexLen THEN Digits[i + 1] ELSE "a"]

\* insertedId.toString(): hex text of an ObjectId, decimal text of a number,
\* a string itself.
IdToString(v) ==
    IF v.t = "oid" THEN v.s
    ELSE IF v.t = "num" THEN NumToString(v.n)
    ELSE v.s

\* { ...a, ...b }: b's fields override a's.
Merge(a, b) ==
    [k \in (DOMAIN a) \cup (DOMAIN b) |-> IF k \in DOMAIN b THEN b[k] ELSE a[k]]

\* delete obj[key]
Without(a, key) == [k \in (DOMAIN a) \ {key} |-> a[k]]

Field(k, v) == [x \in {k} |-> v]

EmptyDoc == [x \in {} |-> Str(<<>>)]

----------------------------------------------------------------------------
(* The adapter's two translations. *)

\* convertQuery: a string _id that ObjectId.isValid accepts becomes an
\* ObjectId; every other _id, and every other field, passes through.
ConvertQuery(query) ==
    [k \in DOMAIN query |->
        IF k = "_id"
        THEN IF query[k].t = "str" /\ ObjectIdIsValid(query[k].s)
             THEN Oid(query[k].s)
             ELSE query[k]
        ELSE query[k]]

\* convertDocument: an ObjectId _id becomes its hex text; any other _id is
\* returned as the store holds it.
ConvertDocument(doc) ==
    Merge(Field("_id", IF doc["_id"].t = "oid" THEN Str(doc["_id"].s) ELSE doc["_id"]),
          Without(doc, "_id"))

\* The record set() builds: the caller's fields, then the two stamps, each
\* from its own reading of the clock.
SetRecord(data, c1, c2) ==
    Merge(data, [x \in {"_createdAt", "_updatedAt"} |->
                    IF x = "_createdAt" THEN Str(ToISOString(c1)) ELSE Str(ToISOString(c2))])

\* What set() returns: the record, with insertedId.toString() as its _id.
SetReturn(record, insertedId) == Merge(record, Field("_id", Str(IdToString(insertedId))))

\* update() without `delete updateData._id`.
UpdateDataKeepingId(data, now) ==
    Merge(data, Field("_updatedAt", Str(ToISOString(now))))

\* update() with the stamp spread before the caller's fields.
UpdateDataCallerLast(data, now) ==
    Without(Merge(Field("_updatedAt", Str(ToISOString(now))), data), "_id")

\* The $set payload update() builds: the caller's fields, then the update
\* stamp, then `delete updateData._id`.
UpdateData(data, now) ==
    Without(Merge(data, Field("_updatedAt", Str(ToISOString(now)))), "_id")

\* The limit exists() passes to countDocuments.
ExistsLimit == 1

\* exists() comparing the count with the limit instead of 0.
ExistsResultAboveLimit(count) == count > ExistsLimit

\* exists(): `count > 0`.
ExistsResult(count) == count > 0

\* ensureConnected testing this.client, which the constructor always sets.
EnsureConnectedOnClient == TRUE

\* ensureConnected passes iff this.collection is set.
EnsureConnected == collection # "null"

----------------------------------------------------------------------------
(* The collection, as the adapter uses it.  A filter matches a document    *)
(* when every field of the filter is a field of the document with an equal *)
(* value (a string never equals a number or an ObjectId).  $set overwrites *)
(* field by field and protects no field, so that what happens to _id under *)
(* update() rests on the adapter alone.                                    *)

Matches(doc, mq) == \A k \in DOMAIN mq : k \in DOMAIN doc /\ doc[k] = mq[k]

Find(coll, mq) == SelectSeq(coll, LAMBDA d : Matches(d, mq))

Ids(coll) == {coll[i]["_id"] : i \in 1..Len(coll)}

\* The ObjectId the driver generates for a record that carries no _id.
FreshOid(coll) ==
    Oid(GenHex(CHOOSE i \in 1..(Len(coll) + 1) :
            /\ Oid(GenHex(i)) \notin Ids(coll)
            /\ \A j \in 1..(i - 1) : Oid(GenHex(j)) \in Ids(coll)))

InsertedId(coll, record) ==
    IF "_id" \in DOMAIN record THEN record["_id"] ELSE FreshOid(coll)

InsertOne(coll, record) ==
    Append(coll, Merge(record, Field("_id", InsertedId(coll, record))))

UpdateMany(coll, mq, setDoc) ==
    [i \in 1..Len(coll) |-> IF Matches(coll[i], mq) THEN Merge(coll[i], setDoc) ELSE coll[i]]

ModifiedCount(coll, mq, setDoc) ==
    Cardinality({i \in 1..Len(coll) : Matches(coll[i], mq) /\ Merge(coll[i], setDoc) # coll[i]})

\* deleteOne in place of deleteMany: only the first match goes.
RECURSIVE DeleteFirst(_, _)
DeleteFirst(coll, mq) ==
    IF coll = <<>> THEN <<>>
    ELSE IF Matches(Head(coll), mq) THEN Tail(coll)
    ELSE <<Head(coll)>> \o DeleteFirst(Tail(coll), mq)

DeleteMany(coll, mq) == SelectSeq(coll, LAMBDA d : ~Matches(d, mq))

\* countDocuments(filter, {limit}); limit 0 is no limit.
CountDocuments(coll, mq, limit) ==
    LET n == Len(Find(coll, mq))
    IN  IF limit > 0 /\ n > limit THEN limit ELSE n

\* What exists(query) returns on collection coll: a count limited to one,
\* compared with 0.
ExistsReturn(coll, q) == ExistsResult(CountDocuments(coll, ConvertQuery(q), ExistsLimit))

\* What count(query) returns on collection coll: a count with no limit.
CountReturn(coll, q) == CountDocuments(coll, ConvertQuery(q), 0)

----------------------------------------------------------------------------
(* What a data operation leaves behind for its caller. *)

Result(op, request, outcome, n, flag, docs) ==
    [op |-> op, request |-> request, outcome |-> outcome,
     n |-> n, flag |-> flag, docs |-> docs]

lifecycle == <<session, db, collection, connectAwait, connectDone,
               disconnectAwait, disconnectDone, overlapped>>

\* ensureConnected throws: nothing is sent and nothing changes.
NotConnected(op) ==
    /\ last' = Result(op, "none", "notConnected", 0, FALSE, <<>>)
    /\ UNCHANGED <<lifecycle, clock, store, indexes, hist>>

\* The request is sent on a client whose session is not open: the driver
\* rejects it and the collection is untouched.
NativeError(op, request) ==
    /\ last' = Result(op, request, "nativeError", 0, FALSE, <<>>)
    /\ UNCHANGED <<store, indexes, hist>>

\* A read: the collection is untouched.
Answer(op, request, n, flag, docs) ==
    /\ last' = Result(op, request, "ok", n, flag, docs)
    /\ UNCHANGED <<store, indexes, hist>>

\* The entries of the parallel sequence seq whose document in coll does not
\* match mq: hist after deleteMany(mq).
RECURSIVE Spared(_, _, _)
Spared(seq, coll, mq) ==
    IF seq = <<>> THEN <<>>
    ELSE (IF Matches(Head(coll), mq) THEN <<>> ELSE <<Head(seq)>>)
             \o Spared(Tail(seq), Tail(coll), mq)

----------------------------------------------------------------------------
(* The connection lifecycle.  connect() and disconnect() each suspend at   *)
(* one await; the client settles the awaited promise, and the continuation *)
(* runs later.                                                             *)

InFlight == connectAwait + connectDone + disconnectAwait + disconnectDone

dataVars == <<clock, store, indexes, last, hist>>

\* connect() binding the handles before it awaits the client.
ConnectCallBindingFirst ==
    /\ connectAwait + connectDone < MaxInFlight
    /\ connectAwait' = connectAwait + 1
    /\ overlapped' = (overlapped \/ InFlight > 0)
    /\ db' = "db"
    /\ collection' = "coll"
    /\ UNCHANGED <<session, connectDone, disconnectAwait, disconnectDone, dataVars>>

\* connect() is called and suspends at `await this.client.connect()`.
ConnectCall ==
    /\ connectAwait + connectDone < MaxInFlight
    /\ connectAwait' = connectAwait + 1
    /\ overlapped' = (overlapped \/ InFlight > 0)
    /\ UNCHANGED <<session, db, collection, connectDone, disconnectAwait,
                   disconnectDone, dataVars>>

\* The client establishes the session: the awaited promise resolves.
ClientConnectOk ==
    /\ connectAwait > 0
    /\ session' = "open"
    /\ connectAwait' = connectAwait - 1
    /\ connectDone' = connectDone + 1
    /\ UNCHANGED <<db, collection, disconnectAwait, disconnectDone, overlapped, dataVars>>

\* The client cannot establish the session: the awaited promise rejects and
\* connect() throws before binding anything.
ClientConnectFail ==
    /\ connectAwait > 0
    /\ session # "open"
    /\ connectAwait' = connectAwait - 1
    /\ UNCHANGED <<session, db, collection, connectDone, disconnectAwait,
                   disconnectDone, overlapped, dataVars>>

\* connect() resumes: this.db and this.collection are bound.
ConnectResume ==
    /\ connectDone > 0
    /\ connectDone' = connectDone - 1
    /\ db' = "db"
    /\ collection' = "coll"
    /\ UNCHANGED <<session, connectAwait, disconnectAwait, disconnectDone,
                   overlapped, dataVars>>

\* disconnect() is called and suspends at `await this.client.close()`.
DisconnectCall ==
    /\ disconnectAwait + disconnectDone < MaxInFlight
    /\ disconnectAwait' = disconnectAwait + 1
    /\ overlapped' = (overlapped \/ InFlight > 0)
    /\ UNCHANGED <<session, db, collection, connectAwait, connectDone,
                   disconnectDone, dataVars>>

\* The client closes the session (a session never opened stays as it is).
ClientClose ==
    /\ disconnectAwait > 0
    /\ session' = IF session = "open" THEN "closed" ELSE session
    /\ disconnectAwait' = disconnectAwait - 1
    /\ disconnectDone' = disconnectDone + 1
    /\ UNCHANGED <<db, collection, connectAwait, connectDone, overlapped, dataVars>>

\* disconnect() resumes: this.db and this.collection are cleared.
DisconnectResume ==
    /\ disconnectDone > 0
    /\ disconnectDone' = disconnectDone - 1
    /\ db' = "null"
    /\ collection' = "null"
    /\ UNCHANGED <<session, connectAwait, connectDone, disconnectAwait,
                   overlapped, dataVars>>

\* Time passes.
Tick ==
    /\ clock < MaxClock
    /\ clock' = clock + 1
    /\ UNCHANGED <<lifecycle, store, indexes, last, hist>>

----------------------------------------------------------------------------
(* The data operations.  Each is awaited by its caller before the next is  *)
(* made, so the store's handling of the request is part of the step.       *)

\* set(data): the first `new Date()` reads the clock as it is at the call,
\* the second reads c2, the clock having advanced to c2 in between.
Set(d, c2) ==
    IF ~EnsureConnected THEN NotConnected("set")
    ELSE LET record == SetRecord(d, clock, c2)
             id == InsertedId(store, record)
         IN  /\ c2 \in clock..MaxClock
             /\ clock' = c2
             /\ UNCHANGED lifecycle
             /\ IF session # "open" THEN NativeError("set", "insertOne")
                ELSE IF id \in Ids(store) THEN NativeError("set", "insertOne")
                ELSE /\ Len(store) < MaxDocs
                     /\ store' = InsertOne(store, record)
                     /\ hist' = Append(hist, [stamp |-> record["_createdAt"],
                                              retId |-> SetReturn(record, id)["_id"].s,
                                              updated |-> FALSE])
                     /\ last' = Result("set", "insertOne", "ok", 0, FALSE,
                                       <<SetReturn(record, id)>>)
                     /\ UNCHANGED indexes

\* get(query)
Get(q) ==
    IF ~EnsureConnected THEN NotConnected("get")
    ELSE /\ UNCHANGED <<lifecycle, clock>>
         /\ IF session # "open" THEN NativeError("get", "find")
            ELSE LET results == Find(store, ConvertQuery(q))
                 IN  Answer("get", "find", 0, FALSE,
                            [i \in 1..Len(results) |-> ConvertDocument(results[i])])

\* getOne(query)
GetOne(q) ==
    IF ~EnsureConnected THEN NotConnected("getOne")
    ELSE /\ UNCHANGED <<lifecycle, clock>>
         /\ IF session # "open" THEN NativeError("getOne", "findOne")
            ELSE LET results == Find(store, ConvertQuery(q))
                 IN  Answer("getOne", "findOne", 0, FALSE,
                            IF results = <<>> THEN <<>>
                            ELSE <<ConvertDocument(Head(results))>>)

\* update(query, data)
Update(q, d) ==
    IF ~EnsureConnected THEN NotConnected("update")
    ELSE LET mq == ConvertQuery(q)
             updateData == UpdateData(d, clock)
         IN  /\ UNCHANGED <<lifecycle, clock>>
             /\ IF session # "open" THEN NativeError("update", "updateMany")
                ELSE /\ store' = UpdateMany(store, mq, updateData)
                     /\ hist' = [i \in 1..Len(hist) |->
                                   IF /\ Matches(store[i], mq)
                                      /\ Merge(store[i], updateData) # store[i]
                                   THEN [hist[i] EXCEPT !.updated = TRUE]
                                   ELSE hist[i]]
                     /\ last' = Result("update", "updateMany", "ok",
                                       ModifiedCount(store, mq, updateData), FALSE, <<>>)
                     /\ UNCHANGED indexes

\* delete(query)
Delete(q) ==
    IF ~EnsureConnected THEN NotConnected("delete")
    ELSE LET mq == ConvertQuery(q)
         IN  /\ UNCHANGED <<lifecycle, clock>>
             /\ IF session # "open" THEN NativeError("delete", "deleteMany")
                ELSE /\ store' = DeleteMany(store, mq)
                     /\ hist' = Spared(hist, store, mq)
                     /\ last' = Result("delete", "deleteMany", "ok",
                                       Len(store) - Len(DeleteMany(store, mq)), FALSE, <<>>)
                     /\ UNCHANGED indexes

\* exists(query)
Exists(q) ==
    IF ~EnsureConnected THEN NotConnected("exists")
    ELSE /\ UNCHANGED <<lifecycle, clock>>
         /\ IF session # "open" THEN NativeError("exists", "countDocuments")
            ELSE Answer("exists", "countDocuments", 0, ExistsReturn(store, q), <<>>)

\* count(query)
Count(q) ==
    IF ~EnsureConnected THEN NotConnected("count")
    ELSE /\ UNCHANGED <<lifecycle, clock>>
         /\ IF session # "open" THEN NativeError("count", "countDocuments")
            ELSE Answer("count", "countDocuments", CountReturn(store, q), FALSE, <<>>)

----------------------------------------------------------------------------
(* The store-management passthroughs. *)

\* createIndex(fieldOrSpec)
CreateIndex(name) ==
    IF ~EnsureConnected THEN NotConnected("createIndex")
    ELSE /\ UNCHANGED <<lifecycle, clock>>
         /\ IF session # "open" THEN NativeError("createIndex", "createIndex")
            ELSE /\ indexes' = indexes \cup {name}
                 /\ last' = Result("createIndex", "createIndex", "ok", 0, FALSE, <<>>)
                 /\ UNCHANGED <<store, hist>>

\* dropIndex(indexName); the store refuses to drop an index it does not have.
DropIndex(name) ==
    IF ~EnsureConnected THEN NotConnected("dropIndex")
    ELSE /\ UNCHANGED <<lifecycle, clock>>
         /\ IF session # "open" \/ name \notin indexes
            THEN NativeError("dropIndex", "dropIndex")
            ELSE /\ indexes' = indexes \ {name}
                 /\ last' = Result("dropIndex", "dropIndex", "ok", 0, FALSE, <<>>)
                 /\ UNCHANGED <<store, hist>>

\* listIndexes()
ListIndexes ==
    IF ~EnsureConnected THEN NotConnected("listIndexes")
    ELSE /\ UNCHANGED <<lifecycle, clock>>
         /\ IF session # "open" THEN NativeError("listIndexes", "listIndexes")
            ELSE Answer("listIndexes", "listIndexes", Cardinality(indexes), FALSE, <<>>)

\* aggregate([{$match: filter}]): the filter and the documents pass untranslated.
Aggregate(filter) ==
    IF ~EnsureConnected THEN NotConnected("aggregate")
    ELSE /\ UNCHANGED <<lifecycle, clock>>
         /\ IF session # "open" THEN NativeError("aggregate", "aggregate")
            ELSE Answer("aggregate", "aggregate", 0, FALSE, Find(store, filter))

\* clear(): deleteMany({})
Clear ==
    IF ~EnsureConnected THEN NotConnected("clear")
    ELSE /\ UNCHANGED <<lifecycle, clock>>
         /\ IF session # "open" THEN NativeError("clear", "deleteMany")
            ELSE /\ store' = DeleteMany(store, EmptyDoc)
                 /\ hist' = Spared(hist, store, EmptyDoc)
                 /\ last' = Result("clear", "deleteMany", "ok", 0, FALSE, <<>>)
                 /\ UNCHANGED indexes

\* drop(): the collection goes, with its indexes.
Drop ==
    IF ~EnsureConnected THEN NotConnected("drop")
    ELSE /\ UNCHANGED <<lifecycle, clock>>
         /\ IF session # "open" THEN NativeError("drop", "drop")
            ELSE /\ store' = <<>>
                 /\ hist' = <<>>
                 /\ indexes' = {}
                 /\ last' = Result("drop", "drop", "ok", 0, FALSE, <<>>)

----------------------------------------------------------------------------------------------------------------------------------------
(* The callers' inputs. *)

NameA == Str(<<"a">>)
NameB == Str(<<"b">>)
NameC == Str(<<"c">>)

\* A timestamp a caller writes into a record or a patch.
CallerStamp == Str(<<"0">>)

\* Identifiers a caller puts into a record: a number, a plain string, and a
\* string that is the hex text of an ObjectId.
CallerIds == {Num(5), Str(<<"a", "b", "c">>), Str(GenHex(1))}

\* Records given to set(): a name, with or without an _id.
Records ==
    {Field("name", nm) : nm \in {NameA, NameB}}
    \cup {Merge(Field("name", NameA), Field("_id", id)) : id \in CallerIds}

\* Queries: everything, by name, and by _id in each representation.
Queries ==
    {EmptyDoc, Field("name", NameA)}
    \cup {Field("_id", id) : id \in CallerIds \cup {Str(GenHex(2)), Str(NumToString(5))}}

\* Patches given to update(): a plain field, with or without an identifier.
Patches == {Field("name", NameB), Merge(Field("name", NameC), Field("_id", Num(7)))}

\* Records, queries and patches that carry the management timestamps.
StampedRecords ==
    {Field("name", NameA),
     [x \in {"name", "_createdAt", "_updatedAt"} |->
         IF x = "name" THEN NameA ELSE CallerStamp]}

StampQueries == {EmptyDoc, Field("_id", Str(GenHex(1)))}

StampPatches ==
    {Field("name", NameB), Field("_createdAt", CallerStamp),
     Field("_updatedAt", CallerStamp)}

IndexNames == {"name_1"}

\* The inputs of the lifecycle exploration.
FewRecords == {Field("name", NameA)}
FewQueries == {Field("name", NameA)}
FewPatches == {Field("name", NameB)}

----------------------------------------------------------------------------

Init ==
    /\ session = "new"
    /\ db = "null"
    /\ collection = "null"
    /\ connectAwait = 0
    /\ connectDone = 0
    /\ disconnectAwait = 0
    /\ disconnectDone = 0
    /\ clock = 0
    /\ store = <<>>
    /\ indexes = {}
    /\ last = Result("none", "none", "none", 0, FALSE, <<>>)
    /\ hist = <<>>
    /\ overlapped = FALSE

\* Every operation, under any interleaving of the lifecycle's steps, on a
\* collection of at most one record.
Next ==
    \/ ConnectCall
    \/ ClientConnectOk
    \/ ClientConnectFail
    \/ ConnectResume
    \/ DisconnectCall
    \/ ClientClose
    \/ DisconnectResume
    \/ Tick
    \/ \E d \in FewRecords, c2 \in 0..MaxClock :
          (EnsureConnected => store = <<>>) /\ Set(d, c2)
    \/ \E q \in FewQueries : Get(q)
    \/ \E q \in FewQueries : GetOne(q)
    \/ \E q \in FewQueries, d \in FewPatches : Update(q, d)
    \/ \E q \in FewQueries : Delete(q)
    \/ \E q \in FewQueries : Exists(q)
    \/ \E q \in FewQueries : Count(q)
    \/ \E nm \in IndexNames : CreateIndex(nm)
    \/ \E nm \in IndexNames : DropIndex(nm)
    \/ ListIndexes
    \/ \E q \in FewQueries : Aggregate(q)
    \/ Clear
    \/ Drop

Spec == Init /\ [][Next]_vars

\* A single connect(), made on the fresh adapter.
ConnectOnce == InFlight = 0 /\ collection = "null" /\ ConnectCall

\* Identifiers: one connect(), then the data operations on records, queries
\* and patches of every identifier representation, the clock standing still.
NextId ==
    \/ ConnectOnce
    \/ ClientConnectOk
    \/ ConnectResume
    \/ \E d \in Records : Set(d, clock)
    \/ \E q \in Queries : Get(q)
    \/ \E q \in Queries : GetOne(q)
    \/ \E q \in Queries, d \in Patches : Update(q, d)
    \/ \E q \in Queries : Delete(q)
    \/ \E q \in Queries : Exists(q)
    \/ \E q \in Queries : Count(q)

SpecId == Init /\ [][NextId]_vars

\* Timestamps: one connect(), then set, update and get while the clock
\* advances, between calls and between the two readings of one set().
NextTime ==
    \/ ConnectOnce
    \/ ClientConnectOk
    \/ ConnectResume
    \/ Tick
    \/ \E d \in StampedRecords, c2 \in 0..MaxClock : Set(d, c2)
    \/ \E q \in StampQueries, d \in StampPatches : Update(q, d)
    \/ \E q \in StampQueries : Get(q)

SpecTime == Init /\ [][NextTime]_vars

----------------------------------------------------------------------------
(* The claims. *)

Range(seq) == {seq[i] : i \in 1..Len(seq)}

\* The positions of coll whose document matches mq, in order.
MatchIdx(coll, mq) ==
    SelectSeq([i \in 1..Len(coll) |-> i], LAMBDA i : Matches(coll[i], mq))

\* A step of any of the thirteen data operations.
DataCall ==
    \/ \E d \in FewRecords, c2 \in 0..MaxClock : Set(d, c2)
    \/ \E q \in FewQueries : Get(q) \/ GetOne(q) \/ Delete(q) \/ Exists(q) \/ Count(q)
    \/ \E q \in FewQueries, d \in FewPatches : Update(q, d)
    \/ \E nm \in IndexNames : CreateIndex(nm) \/ DropIndex(nm)
    \/ \E q \in FewQueries : Aggregate(q)
    \/ ListIndexes
    \/ Clear
    \/ Drop

\* C1: a data operation called while the collection handle is unbound fails
\* with the local "not connected" error, sends no request to the store and
\* changes neither the stored records nor the indexes.
TheoremC1 ==
    [][(collection = "null" /\ DataCall) =>
          /\ last'.outcome = "notConnected"
          /\ last'.request = "none"
          /\ store' = store
          /\ indexes' = indexes]_vars

\* C1's case: after a disconnect() has completed on a collection that holds
\* a record, a data operation has failed with "not connected".
WitnessC1 ==
    /\ collection = "null"
    /\ session = "closed"
    /\ InFlight = 0
    /\ store # <<>>
    /\ last.outcome = "notConnected"

\* C2: the record set() returns and the record it persists have _createdAt
\* equal to _updatedAt, both the time at the call, whatever the clock does
\* between two readings and whatever stamps the caller supplied.
ClaimC2 ==
    [][\A d \in StampedRecords, c2 \in 0..MaxClock :
          (Set(d, c2) /\ last'.outcome = "ok") =>
              \A r \in {last'.docs[1], store'[Len(store')]} :
                  /\ r["_createdAt"] = r["_updatedAt"]
                  /\ r["_createdAt"] = Str(ToISOString(clock))]_vars

\* C3: every record set, get or getOne returns has a textual _id.
ClaimC3 ==
    (last.op \in {"set", "get", "getOne"} /\ last.outcome = "ok") =>
        \A i \in 1..Len(last.docs) : last.docs[i]["_id"].t = "str"

\* C4: update(query, patch) leaves the identifier of every stored record as
\* it was, also when the patch carries an _id: across every step that ends
\* with update as the latest operation (the update steps, and steps that
\* follow one and leave the collection alone) the identifiers are the same.
TheoremC4 ==
    [][last'.op = "update" =>
          /\ Len(store') = Len(store)
          /\ \A i \in 1..Len(store) : store'[i]["_id"] = store[i]["_id"]]_vars

\* C4's case: a record has been modified by the patch that carries an _id,
\* and its identifier is not the patch's.
WitnessC4 ==
    \E i \in 1..Len(store) :
        /\ hist[i].updated
        /\ store[i]["name"] = NameC
        /\ store[i]["_id"] # Num(7)

\* C5: after update(query, patch) each matched record's _createdAt is what
\* set() stamped and its _updatedAt is the clock at the update call,
\* whatever stamps the patch carries.
ClaimC5 ==
    [][\A q \in StampQueries, d \in StampPatches :
          (Update(q, d) /\ last'.outcome = "ok") =>
              \A i \in 1..Len(store) :
                  Matches(store[i], ConvertQuery(q)) =>
                      /\ store'[i]["_createdAt"] = hist[i].stamp
                      /\ store'[i]["_updatedAt"] = Str(ToISOString(clock))]_vars

\* C6: getOne({_id: t}) with the text t that set() returned for a stored
\* record returns that record; with a well-formed hex text that is the
\* identifier of no stored record it returns null.
ClaimC6 ==
    [][\A q \in Queries :
          (GetOne(q) /\ last'.outcome = "ok" /\ "_id" \in DOMAIN q /\ q["_id"].t = "str") =>
              /\ \A i \in 1..Len(store) :
                    hist[i].retId = q["_id"].s =>
                        last'.docs = <<Merge(store[i], Field("_id", Str(hist[i].retId)))>>
              /\ (/\ ObjectIdIsValid(q["_id"].s)
                  /\ \A i \in 1..Len(store) : IdToString(store[i]["_id"]) # q["_id"].s)
                    => last'.docs = <<>>]_vars

\* C7: on every collection content and for every query, what exists(q)
\* returns is true exactly when what count(q) returns is greater than 0.
TheoremC7 ==
    \A q \in Queries : ExistsReturn(store, q) <=> (CountReturn(store, q) > 0)

\* C7's case: exists() has answered true on a collection where the same
\* query counts more than the limit of one.
WitnessC7 ==
    /\ last.op = "exists"
    /\ last.flag
    /\ \E q \in Queries : CountReturn(store, q) > ExistsLimit

\* C8 as stated: a record that set() inserted and update() later modified
\* comes back from get with _updatedAt strictly later than _createdAt.
ClaimC8 ==
    [][\A q \in StampQueries :
          (Get(q) /\ last'.outcome = "ok") =>
              LET idx == MatchIdx(store, ConvertQuery(q))
              IN  \A k \in 1..Len(idx) :
                      hist[idx[k]].updated =>
                          StrLess(last'.docs[k]["_createdAt"].s,
                                  last'.docs[k]["_updatedAt"].s)]_vars

\* C8 amended: such a record comes back from get with _updatedAt not earlier
\* than the _createdAt set() stamped on it.
TheoremC8 ==
    [][\A q \in StampQueries :
          (Get(q) /\ last'.outcome = "ok") =>
              LET idx == MatchIdx(store, ConvertQuery(q))
              IN  /\ Len(last'.docs) = Len(idx)
                  /\ \A k \in 1..Len(idx) :
                        hist[idx[k]].updated =>
                            StrLeq(hist[idx[k]].stamp.s,
                                   last'.docs[k]["_updatedAt"].s)]_vars

\* C8's case: get has returned a record that update() modified in the
\* millisecond in which set() inserted it.
WitnessC8 ==
    /\ last.op = "get"
    /\ last.outcome = "ok"
    /\ \E i \in 1..Len(store) :
          /\ hist[i].updated
          /\ store[i]["_updatedAt"] = hist[i].stamp
          /\ ConvertDocument(store[i]) \in Range(last.docs)

\* C9: delete(query) removes exactly the records that match the translated
\* query, returns their number and leaves the others as they were; with no
\* match it returns 0 and the collection is as before.
TheoremC9 ==
    [][\A q \in Queries :
          (last'.op = "delete" /\ last'.outcome = "ok" /\ Delete(q)) =>
              LET hit == {i \in 1..Len(store) : Matches(store[i], ConvertQuery(q))}
              IN  /\ last'.n = Cardinality(hit)
                  /\ Len(store') = Len(store) - Cardinality(hit)
                  /\ Range(store') = {store[i] : i \in (1..Len(store)) \ hit}
                  /\ hit = {} => store' = store]_vars

\* C9's case: a delete has removed one record and left another.
WitnessC9 ==
    /\ last.op = "delete"
    /\ last.n = 1
    /\ Len(store) = 1

\* C10 as stated: the two handles are bound together, and while the
\* collection handle is bound the client's session is open.
ClaimC10 ==
    /\ (db = "null") <=> (collection = "null")
    /\ collection # "null" => session = "open"

\* C10 amended: the two handles are bound together; and when connect() and
\* disconnect() calls have not overlapped, while the collection handle is
\* bound and no disconnect() is in flight the client's session is open.
TheoremC10 ==
    /\ (db = "null") <=> (collection = "null")
    /\ (collection # "null" /\ ~overlapped /\ disconnectAwait + disconnectDone = 0)
          => session = "open"

\* C10's case: a data operation has succeeded on a bound handle, the
\* lifecycle calls never having overlapped and none being in flight.
WitnessC10 ==
    /\ collection # "null"
    /\ ~overlapped
    /\ InFlight = 0
    /\ store # <<>>
    /\ last.op = "get"
    /\ last.outcome = "ok"

====
